---- MODULE Spec2Model ----
(***************************************************************************)
(* ForLoop action of launch (launch/launch/actions/for_loop.py).           *)
(*                                                                         *)
(* A launch description holding one ForLoop over the launch argument       *)
(* "num" is visited depth-first: visiting an entity executes it and the    *)
(* entities it returns are visited before the rest of the description.     *)
(* Strings are sequences of one-character strings, so that int() and str() *)
(* are conversions and not the identity.  Dictionaries are sets of         *)
(* <<key, value>> pairs with unique keys.                                  *)
(***************************************************************************)
EXTENDS Integers, Sequences, FiniteSets, TLC

\* ---- bounds -------------------------------------------------------------
MaxCount == 2       \* largest iteration count a launch argument is set to
MaxEntities == 2    \* longest entities list of the top-level ForLoop

VARIABLES
    launch_configurations,  \* context.launch_configurations: set of <<name, string>>
    locals_stack,           \* the scoped locals of the context: stack of frames, base frame first
    agenda,                 \* entities still to visit, next one first
    status,                 \* "running", "done" or "error" (an exception reached the driver)
    error,                  \* the exception that stopped the run, "" when none
    nextId,                 \* identity of the next object created
    log,                    \* what the logger received, in order
    expansions,             \* history: every list returned by ForLoop.execute, in order
    trace,                  \* history: every scope step and every index resolution, in order
    visited                 \* history: identity of every entity executed, in order

vars == <<launch_configurations, locals_stack, agenda, status, error, nextId,
          log, expansions, trace, visited>>

\* ---- dictionaries -------------------------------------------------------
Has(d, k) == \E p \in d : p[1] = k

Get(d, k) == (CHOOSE p \in d : p[1] = k)[2]

Update(d, k, v) == {p \in d : p[1] # k} \cup {<<k, v>>}

\* ---- str() and int() ----------------------------------------------------
Digits == <<"0", "1", "2", "3", "4", "5", "6", "7", "8", "9">>

IsDigit(c) == \E d \in 1..10 : Digits[d] = c

DigitVal(c) == (CHOOSE d \in 1..10 : Digits[d] = c) - 1

RECURSIVE StrNat(_)
StrNat(n) == IF n < 10 THEN <<Digits[n + 1]>>
             ELSE StrNat(n \div 10) \o <<Digits[(n % 10) + 1]>>

\* str(index) of a Python int
str(n) == IF n < 0 THEN <<"-">> \o StrNat(-n) ELSE StrNat(n)

IsSpace(c) == c = " "

RECURSIVE LStrip(_)
LStrip(s) == IF s # <<>> /\ IsSpace(Head(s)) THEN LStrip(Tail(s)) ELSE s

RECURSIVE RStrip(_)
RStrip(s) == IF s # <<>> /\ IsSpace(s[Len(s)])
             THEN RStrip(SubSeq(s, 1, Len(s) - 1)) ELSE s

\* the digits of an integer literal: digits, single underscores between them
IsDigitRun(s) ==
    /\ s # <<>>
    /\ \A k \in 1..Len(s) :
          \/ IsDigit(s[k])
          \/ /\ s[k] = "_"
             /\ 1 < k /\ k < Len(s)
             /\ IsDigit(s[k - 1]) /\ IsDigit(s[k + 1])

RECURSIVE DigitRunVal(_, _)
DigitRunVal(s, acc) ==
    IF s = <<>> THEN acc
    ELSE IF Head(s) = "_" THEN DigitRunVal(Tail(s), acc)
    ELSE DigitRunVal(Tail(s), 10 * acc + DigitVal(Head(s)))

\* int(s) of a Python str: surrounding whitespace, an optional sign, decimal
\* digits; ok is FALSE where int() raises ValueError
int(s) ==
    LET t == RStrip(LStrip(s))
        signed == t # <<>> /\ Head(t) \in {"+", "-"}
        body == IF signed THEN Tail(t) ELSE t
    IN  IF IsDigitRun(body)
        THEN [ok |-> TRUE,
              value |-> IF signed /\ Head(t) = "-"
                        THEN 0 - DigitRunVal(body, 0) ELSE DigitRunVal(body, 0)]
        ELSE [ok |-> FALSE, value |-> 0]

\* ---- the context (launch_context.py, substitutions) ---------------------
\* context._push_locals(): a new empty frame on top of the stack
context_push_locals(stack) == Append(stack, {})

\* context._pop_locals(): discards the top frame; the base frame cannot go
context_pop_locals(stack) ==
    IF Len(stack) <= 1
    THEN [raised |-> "RuntimeError", locals |-> stack]
    ELSE [raised |-> "", locals |-> SubSeq(stack, 1, Len(stack) - 1)]

\* context.extend_locals({name: value}): binds in the current (top) frame
extend_locals(stack, name, value) ==
    [stack EXCEPT ![Len(stack)] = Update(stack[Len(stack)], name, value)]

\* name in context.locals
Contains(stack, name) == \E k \in 1..Len(stack) : Has(stack[k], name)

\* context.locals.<name>: the binding of the nearest enclosing frame
Lookup(stack, name) ==
    IF Contains(stack, name)
    THEN LET k == CHOOSE j \in 1..Len(stack) :
                     /\ Has(stack[j], name)
                     /\ \A h \in (j + 1)..Len(stack) : ~Has(stack[h], name)
         IN  [found |-> TRUE, value |-> Get(stack[k], name)]
    ELSE [found |-> FALSE, value |-> <<>>]

\* LaunchConfiguration(name).perform(context); ok is FALSE where it raises
\* SubstitutionFailure because the launch configuration does not exist
perform(configurations, name) ==
    IF Has(configurations, name)
    THEN [ok |-> TRUE, value |-> Get(configurations, name)]
    ELSE [ok |-> FALSE, value |-> <<>>]

\* ---- entities -----------------------------------------------------------
ArgNames == {"num", "m"}

\* a (entity type, kwargs) pair of an entities list
Template(type, name, entities) ==
    [type |-> type, name |-> name, entities |-> entities]

\* entity_t(**entity_kwargs): a new object, created by loop `owner` for its
\* iteration `iter`
Instantiate(t, id, owner, iter) ==
    [type |-> t.type, name |-> t.name, entities |-> t.entities,
     function |-> "", index |-> -1, owner |-> owner, iter |-> iter, id |-> id]

\* entity_t(**entity_kwargs) raises TypeError: the type Rejecting never
\* accepts its kwargs, the type OnlyOnce accepts them for one object only
Rejects(t, i) ==
    \/ t.type = "Rejecting"
    \/ t.type = "OnlyOnce" /\ i >= 1

\* the entries of the entities list whose constructor raises in iteration i
RejectedAt(self, i) ==
    {k \in 1..Len(self.entities) : Rejects(self.entities[k], i)}

\* OpaqueFunction(function=self.<function>, args=...): index is -1 when the
\* function takes no arguments
OpaqueFunction(function, name, index, id, owner, iter) ==
    [type |-> "OpaqueFunction", name |-> name, entities |-> <<>>,
     function |-> function, index |-> index, owner |-> owner, iter |-> iter,
     id |-> id]

\* ---- ForLoop ------------------------------------------------------------
\* mutation: the pop step is placed before the instantiated entities
IterationEntities_PopFirst(self, i, id) ==
    LET n == Len(self.entities)
    IN  <<OpaqueFunction("_push_locals", self.name, -1, id, self.id, i),
          OpaqueFunction("_set_index_local", self.name, i, id + 1, self.id, i),
          OpaqueFunction("_pop_locals", self.name, -1, id + 2, self.id, i)>>
        \o [k \in 1..n |-> Instantiate(self.entities[k], id + 2 + k, self.id, i)]

\* mutation: every iteration is handed the same objects, one per entry of
\* the entities list, instead of new ones
IterationEntities_Shared(self, i, id) ==
    LET n == Len(self.entities)
    IN  <<OpaqueFunction("_push_locals", self.name, -1, id, self.id, i),
          OpaqueFunction("_set_index_local", self.name, i, id + 1, self.id, i)>>
        \o [k \in 1..n |-> Instantiate(self.entities[k], 0 - k, self.id, 0)]
        \o <<OpaqueFunction("_pop_locals", self.name, -1, id + n + 2, self.id, i)>>

\* mutation: the pop step is left out
IterationEntities_NoPop(self, i, id) ==
    LET n == Len(self.entities)
    IN  <<OpaqueFunction("_push_locals", self.name, -1, id, self.id, i),
          OpaqueFunction("_set_index_local", self.name, i, id + 1, self.id, i)>>
        \o [k \in 1..n |-> Instantiate(self.entities[k], id + 1 + k, self.id, i)]

\* the list that one pass of the for statement appends; objects get the
\* identities id, id + 1, ... in the order the list literal creates them
IterationEntities(self, i, id) ==
    LET n == Len(self.entities)
    IN  <<OpaqueFunction("_push_locals", self.name, -1, id, self.id, i),
          OpaqueFunction("_set_index_local", self.name, i, id + 1, self.id, i)>>
        \o [k \in 1..n |-> Instantiate(self.entities[k], id + 1 + k, self.id, i)]
        \o <<OpaqueFunction("_pop_locals", self.name, -1, id + n + 2, self.id, i)>>

\* mutation: range(num + 1)
RECURSIVE ForRange_Inclusive(_, _, _, _, _)
ForRange_Inclusive(self, i, num, entities, id) ==
    IF i > num THEN entities
    ELSE ForRange_Inclusive(self, i + 1, num,
             entities \o IterationEntities(self, i, id),
             id + Len(self.entities) + 3)

\* for i in range(num): entities.extend([...]); id is the next unused
\* object identity, and each iteration creates Len(self.entities) + 3 objects
RECURSIVE ForRange(_, _, _, _, _)
ForRange(self, i, num, entities, id) ==
    IF i >= num THEN entities
    ELSE ForRange(self, i + 1, num,
                  entities \o IterationEntities(self, i, id),
             id + Len(self.entities) + 3)

\* mutation: a launch argument that cannot be resolved counts as zero
execute_Swallow(self, configurations, id) ==
    LET value == perform(configurations, self.name)
        num == int(value.value)
        n == IF value.ok /\ num.ok THEN num.value ELSE 0
    IN  [raised |-> "", num |-> n,
         debug |-> <<[level |-> "DEBUG",
                      msg |-> <<"for-loop length=">> \o str(n)]>>,
         entities |-> ForRange(self, 0, n, <<>>, id),
         created |-> Len(ForRange(self, 0, n, <<>>, id))]

\* mutation: a constructor that raises ends the loop and the entities built
\* so far are returned
execute_Partial(self, configurations, id) ==
    LET value == perform(configurations, self.name)
        num == int(value.value)
        failing == {i \in 0..(num.value - 1) : RejectedAt(self, i) # {}}
        k == CHOOSE i \in failing : \A j \in failing : i <= j
        until == IF failing = {} THEN num.value ELSE k
        built == ForRange(self, 0, until, <<>>, id)
    IN  IF ~value.ok
        THEN [raised |-> "SubstitutionFailure", num |-> 0, debug |-> <<>>,
              entities |-> <<>>, created |-> 0]
        ELSE IF ~num.ok
        THEN [raised |-> "ValueError", num |-> 0, debug |-> <<>>,
              entities |-> <<>>, created |-> 0]
        ELSE [raised |-> "", num |-> num.value,
              debug |-> <<[level |-> "DEBUG",
                           msg |-> <<"for-loop length=">> \o str(num.value)]>>,
              entities |-> built, created |-> Len(built)]

\* mutation: a negative count is an error
execute_RejectNegative(self, configurations, id) ==
    LET value == perform(configurations, self.name)
        num == int(value.value)
        failing == {i \in 0..(num.value - 1) : RejectedAt(self, i) # {}}
        built == ForRange(self, 0, num.value, <<>>, id)
    IN  IF ~value.ok
        THEN [raised |-> "SubstitutionFailure", num |-> 0, debug |-> <<>>,
              entities |-> <<>>, created |-> 0]
        ELSE IF ~num.ok \/ num.value < 0
        THEN [raised |-> "ValueError", num |-> 0, debug |-> <<>>,
              entities |-> <<>>, created |-> 0]
        ELSE IF failing # {}
        THEN [raised |-> "TypeError", num |-> num.value, debug |-> <<>>,
              entities |-> <<>>, created |-> 0]
        ELSE [raised |-> "", num |-> num.value,
              debug |-> <<[level |-> "DEBUG",
                           msg |-> <<"for-loop length=">> \o str(num.value)]>>,
              entities |-> built, created |-> Len(built)]

\* ForLoop.execute(context): the count is resolved first; a constructor that
\* raises in iteration k ends the call, and the entities built in iterations
\* 0..k-1 and in iteration k before it are dropped with the local list
execute(self, configurations, id) ==
    LET value == perform(configurations, self.name)
        \* the remainder of the body, for the count as int() returned it
        body(num) ==
            LET debug == <<[level |-> "DEBUG",
                            msg |-> <<"for-loop length=">> \o str(num.value)]>>
                failing == {i \in 0..(num.value - 1) : RejectedAt(self, i) # {}}
                k == CHOOSE i \in failing : \A j \in failing : i <= j
                first == CHOOSE j \in RejectedAt(self, k) :
                            \A h \in RejectedAt(self, k) : j <= h
                built == ForRange(self, 0, num.value, <<>>, id)
            IN  IF ~num.ok
                THEN [raised |-> "ValueError", num |-> 0, debug |-> <<>>,
                      entities |-> <<>>, created |-> 0]
                ELSE IF failing # {}
                THEN [raised |-> "TypeError", num |-> num.value,
                      debug |-> debug, entities |-> <<>>,
                      created |-> Len(ForRange(self, 0, k, <<>>, id))
                                      + 2 + (first - 1)]
                ELSE [raised |-> "", num |-> num.value, debug |-> debug,
                      entities |-> built, created |-> Len(built)]
    IN  IF ~value.ok
        THEN [raised |-> "SubstitutionFailure", num |-> 0, debug |-> <<>>,
              entities |-> <<>>, created |-> 0]
        ELSE \* int() is applied once, to the string perform() returned
             CHOOSE r \in {body(num) : num \in {int(value.value)}} : TRUE

\* ForLoop._push_locals(context)
_push_locals(stack) == context_push_locals(stack)

\* mutation: the frame is not discarded
_pop_locals_Keep(stack) == [raised |-> "", locals |-> stack]

\* ForLoop._pop_locals(context)
_pop_locals(stack) == context_pop_locals(stack)

\* mutation: the index is off by one
_set_index_local_OffByOne(stack, local_name, index) ==
    [warnings |->
        IF Contains(stack, local_name)
        THEN <<[level |-> "WARNING",
                msg |-> <<"local variable already exists: ", local_name, "=">>
                        \o Lookup(stack, local_name).value]>>
        ELSE <<>>,
     locals |-> extend_locals(stack, local_name, str(index + 1))]

\* mutation: the index is bound in the base frame, not in the current one
_set_index_local_Global(stack, local_name, index) ==
    [warnings |->
        IF Contains(stack, local_name)
        THEN <<[level |-> "WARNING",
                msg |-> <<"local variable already exists: ", local_name, "=">>
                        \o Lookup(stack, local_name).value]>>
        ELSE <<>>,
     locals |-> [stack EXCEPT ![1] = Update(stack[1], local_name, str(index))]]

\* mutation: the check for an existing local comes after the binding
_set_index_local_WarnAfter(stack, local_name, index) ==
    LET bound == extend_locals(stack, local_name, str(index))
    IN  [warnings |->
            IF Contains(bound, local_name)
            THEN <<[level |-> "WARNING",
                    msg |-> <<"local variable already exists: ", local_name, "=">>
                            \o Lookup(bound, local_name).value]>>
            ELSE <<>>,
         locals |-> bound]

\* ForLoop._set_index_local(context, local_name, index)
_set_index_local(stack, local_name, index) ==
    [warnings |->
        IF Contains(stack, local_name)
        THEN <<[level |-> "WARNING",
                msg |-> <<"local variable already exists: ", local_name, "=">>
                        \o Lookup(stack, local_name).value]>>
        ELSE <<>>,
     locals |-> extend_locals(stack, local_name, str(index))]

\* ---- the launch descriptions and arguments explored ----------------------
SeqsUpTo(S, n) == UNION {[1..k -> S] : k \in 0..n}

\* LogInfo(msg=['i=', ForLoop.IndexSubstitution(name)])
LogInfoT(name) == Template("LogInfo", name, <<>>)

\* an entity whose execution may raise
MayFailT == Template("MayFail", "", <<>>)

\* an entity that binds the local tmp: context.extend_locals({'tmp': 'v'})
ExtendLocalsT == Template("ExtendLocals", "tmp", <<>>)

\* an entity type whose constructor rejects the kwargs given
RejectingT == Template("Rejecting", "", <<>>)

\* an entity type of which a second object cannot be constructed
OnlyOnceT == Template("OnlyOnce", "", <<>>)

\* the entities lists of the ForLoop of the launch description are drawn
\* from these entries: five plain entities, a ForLoop over the same launch
\* argument and a ForLoop over the launch argument m
LeafTemplates ==
    {LogInfoT("num"), MayFailT, ExtendLocalsT, RejectingT, OnlyOnceT}

InnerLoopTemplates ==
    {Template("ForLoop", "num", <<LogInfoT("num"), MayFailT>>),
     Template("ForLoop", "m", <<LogInfoT("m"), LogInfoT("num")>>)}

TemplateLists == SeqsUpTo(LeafTemplates \cup InnerLoopTemplates, MaxEntities)

\* values of the launch argument num: counts, a negative count, a count
\* padded with whitespace, and two strings that int() rejects
NumValues ==
    {str(n) : n \in 0..MaxCount}
    \cup {<<"-", "1">>, <<" ", "1">>, <<"a">>, <<"1", ".", "0">>}

\* the launch argument m is declared with the value '2'; num may be undeclared
InnerValue == <<"2">>

Configurations ==
    {a \cup {<<"m", InnerValue>>} :
        a \in {{}} \cup {{<<"num", v>>} : v \in NumValues}}

\* the locals before the description runs: nothing, or num already bound
OuterValue == <<"o", "u", "t">>

BaseFrames == {{}, {<<"num", OuterValue>>}}

\* the ForLoop of the launch description, object 0
RootLoop(entities) ==
    Instantiate(Template("ForLoop", "num", entities), 0, -1, -1)

Init ==
    /\ launch_configurations \in Configurations
    /\ \E base \in BaseFrames : locals_stack = <<base>>
    /\ \E entities \in TemplateLists : agenda = <<RootLoop(entities)>>
    /\ status = "running"
    /\ error = ""
    /\ nextId = 1
    /\ log = <<>>
    /\ expansions = <<>>
    /\ trace = <<>>
    /\ visited = <<>>

\* ---- the driver: visit the next entity ----------------------------------
Event(kind, e, found, value, depth) ==
    [kind |-> kind, owner |-> e.owner, iter |-> e.iter, name |-> e.name,
     found |-> found, value |-> value, depth |-> depth]

Raise(exception) ==
    /\ status' = "error"
    /\ error' = exception

\* mutation: the count is read from the locals where they bind the name
VisitForLoop_LocalsFirst ==
    /\ status = "running" /\ agenda # <<>>
    /\ Head(agenda).type = "ForLoop"
    /\ \E self \in {Head(agenda)} :
       \E r \in {execute(self,
                         IF Contains(locals_stack, self.name)
                         THEN Update(launch_configurations, self.name,
                                     Lookup(locals_stack, self.name).value)
                         ELSE launch_configurations,
                         nextId)} :
           /\ visited' = Append(visited, self.id)
           /\ log' = log \o r.debug
           /\ nextId' = nextId + r.created
           /\ IF r.raised # ""
              THEN /\ Raise(r.raised)
                   /\ UNCHANGED <<agenda, expansions>>
              ELSE /\ agenda' = r.entities \o Tail(agenda)
                   /\ expansions' = Append(expansions,
                          [self |-> self.id, name |-> self.name,
                           num |-> r.num, templates |-> self.entities,
                           entities |-> r.entities])
                   /\ UNCHANGED <<status, error>>
    /\ UNCHANGED <<launch_configurations, locals_stack, trace>>

\* mutation: execute pushes the frame of the first iteration itself
VisitForLoop_EagerPush ==
    /\ status = "running" /\ agenda # <<>>
    /\ Head(agenda).type = "ForLoop"
    /\ \E self \in {Head(agenda)} :
       \E r \in {execute(self, launch_configurations, nextId)} :
           /\ visited' = Append(visited, self.id)
           /\ log' = log \o r.debug
           /\ nextId' = nextId + r.created
           /\ IF r.raised # ""
              THEN /\ Raise(r.raised)
                   /\ UNCHANGED <<agenda, expansions, locals_stack>>
              ELSE /\ agenda' = (IF r.entities = <<>> THEN <<>>
                                 ELSE Tail(r.entities)) \o Tail(agenda)
                   /\ locals_stack' = IF r.entities = <<>> THEN locals_stack
                                      ELSE _push_locals(locals_stack)
                   /\ expansions' = Append(expansions,
                          [self |-> self.id, name |-> self.name,
                           num |-> r.num, templates |-> self.entities,
                           entities |-> r.entities])
                   /\ UNCHANGED <<status, error>>
    /\ UNCHANGED <<launch_configurations, trace>>

\* a ForLoop is executed and the entities it returns are visited next
VisitForLoop ==
    /\ status = "running" /\ agenda # <<>>
    /\ Head(agenda).type = "ForLoop"
    /\ \E self \in {Head(agenda)} :
       \E r \in {execute(self, launch_configurations, nextId)} :
           /\ visited' = Append(visited, self.id)
           /\ log' = log \o r.debug
           /\ IF r.raised # ""
              THEN /\ Raise(r.raised)
                   /\ nextId' = nextId + r.created
                   /\ UNCHANGED <<agenda, expansions>>
              ELSE /\ agenda' = r.entities \o Tail(agenda)
                   /\ nextId' = nextId + r.created
                   /\ expansions' = Append(expansions,
                          [self |-> self.id, name |-> self.name,
                           num |-> r.num, templates |-> self.entities,
                           entities |-> r.entities])
                   /\ UNCHANGED <<status, error>>
    /\ UNCHANGED <<launch_configurations, locals_stack, trace>>

\* OpaqueFunction(function=self._push_locals)
VisitPushLocals ==
    /\ status = "running" /\ agenda # <<>>
    /\ Head(agenda).type = "OpaqueFunction"
    /\ Head(agenda).function = "_push_locals"
    /\ LET e == Head(agenda)
           before == Lookup(locals_stack, e.name)
       IN  /\ locals_stack' = _push_locals(locals_stack)
           /\ trace' = Append(trace, Event("push", e, before.found,
                                           before.value, Len(locals_stack)))
           /\ visited' = Append(visited, e.id)
    /\ agenda' = Tail(agenda)
    /\ UNCHANGED <<launch_configurations, status, error, nextId, log, expansions>>

\* OpaqueFunction(function=self._set_index_local, args=(name, i))
VisitSetIndexLocal ==
    /\ status = "running" /\ agenda # <<>>
    /\ Head(agenda).type = "OpaqueFunction"
    /\ Head(agenda).function = "_set_index_local"
    /\ LET e == Head(agenda)
           r == _set_index_local(locals_stack, e.name, e.index)
       IN  /\ locals_stack' = r.locals
           /\ log' = log \o r.warnings
           /\ trace' = Append(trace, Event("bind", e, r.warnings # <<>>,
                                           Lookup(r.locals, e.name).value,
                                           Len(r.locals)))
           /\ visited' = Append(visited, e.id)
    /\ agenda' = Tail(agenda)
    /\ UNCHANGED <<launch_configurations, status, error, nextId, expansions>>

\* OpaqueFunction(function=self._pop_locals)
VisitPopLocals ==
    /\ status = "running" /\ agenda # <<>>
    /\ Head(agenda).type = "OpaqueFunction"
    /\ Head(agenda).function = "_pop_locals"
    /\ LET e == Head(agenda)
           r == _pop_locals(locals_stack)
           after == Lookup(r.locals, e.name)
       IN  /\ visited' = Append(visited, e.id)
           /\ IF r.raised # ""
              THEN /\ Raise(r.raised)
                   /\ UNCHANGED <<agenda, locals_stack, trace>>
              ELSE /\ locals_stack' = r.locals
                   /\ trace' = Append(trace, Event("pop", e, after.found,
                                                   after.value, Len(r.locals)))
                   /\ agenda' = Tail(agenda)
                   /\ UNCHANGED <<status, error>>
    /\ UNCHANGED <<launch_configurations, nextId, log, expansions>>

\* LogInfo: the message is 'i=' followed by the local the substitution names;
\* resolving a local that is not bound raises
VisitLogInfo ==
    /\ status = "running" /\ agenda # <<>>
    /\ Head(agenda).type = "LogInfo"
    /\ LET e == Head(agenda)
           r == Lookup(locals_stack, e.name)
       IN  /\ visited' = Append(visited, e.id)
           /\ IF r.found
              THEN /\ log' = Append(log, [level |-> "INFO",
                                          msg |-> <<"i", "=">> \o r.value])
                   /\ trace' = Append(trace, Event("resolve", e, TRUE, r.value,
                                                   Len(locals_stack)))
                   /\ agenda' = Tail(agenda)
                   /\ UNCHANGED <<status, error>>
              ELSE /\ Raise("AttributeError")
                   /\ UNCHANGED <<agenda, log, trace>>
    /\ UNCHANGED <<launch_configurations, locals_stack, nextId, expansions>>

\* an entity whose execution succeeds without effect ...
VisitMayFailOk ==
    /\ status = "running" /\ agenda # <<>>
    /\ Head(agenda).type = "MayFail"
    /\ visited' = Append(visited, Head(agenda).id)
    /\ agenda' = Tail(agenda)
    /\ UNCHANGED <<launch_configurations, locals_stack, status, error, nextId,
                   log, expansions, trace>>

\* ... or raises
VisitMayFailRaise ==
    /\ status = "running" /\ agenda # <<>>
    /\ Head(agenda).type = "MayFail"
    /\ visited' = Append(visited, Head(agenda).id)
    /\ Raise("RuntimeError")
    /\ UNCHANGED <<launch_configurations, locals_stack, agenda, nextId, log,
                   expansions, trace>>

\* an entity that binds a local of its own in the current frame
VisitExtendLocals ==
    /\ status = "running" /\ agenda # <<>>
    /\ Head(agenda).type = "ExtendLocals"
    /\ LET e == Head(agenda)
       IN  /\ locals_stack' = extend_locals(locals_stack, e.name, <<"v">>)
           /\ trace' = Append(trace, Event("extend", e, TRUE, <<"v">>,
                                           Len(locals_stack)))
           /\ visited' = Append(visited, e.id)
    /\ agenda' = Tail(agenda)
    /\ UNCHANGED <<launch_configurations, status, error, nextId, log, expansions>>

\* the one object of the type OnlyOnce: executing it has no effect
VisitOnlyOnce ==
    /\ status = "running" /\ agenda # <<>>
    /\ Head(agenda).type = "OnlyOnce"
    /\ visited' = Append(visited, Head(agenda).id)
    /\ agenda' = Tail(agenda)
    /\ UNCHANGED <<launch_configurations, locals_stack, status, error, nextId,
                   log, expansions, trace>>

\* nothing is left to visit
Finish ==
    /\ status = "running" /\ agenda = <<>>
    /\ status' = "done"
    /\ UNCHANGED <<launch_configurations, locals_stack, agenda, error, nextId,
                   log, expansions, trace, visited>>

Next ==
    \/ VisitForLoop
    \/ VisitPushLocals
    \/ VisitSetIndexLocal
    \/ VisitPopLocals
    \/ VisitLogInfo
    \/ VisitMayFailOk
    \/ VisitMayFailRaise
    \/ VisitExtendLocals
    \/ VisitOnlyOnce
    \/ Finish

Spec == Init /\ [][Next]_vars

\* the driver visits the entities one after the other until none is left or
\* one raises: a step that can be taken is taken
LiveSpec == Spec /\ WF_vars(Next)

\* ---- reading the histories ----------------------------------------------
\* the one-digit decimal numeral of i, for 0 <= i <= 9
Decimal(i) == <<Digits[i + 1]>>

\* v is the decimal numeral of n, possibly surrounded by spaces
DenotesCount(v, n) == RStrip(LStrip(v)) = Decimal(n)

\* the counts the launch arguments explored can denote
Counts == 0..(MaxCount + 2)

\* the value of a launch argument does not denote an integer
Unparseable(v) ==
    /\ \A n \in Counts : ~DenotesCount(v, n)
    /\ v # <<"-", "1">>

Positions(seq, kind) == {p \in 1..Len(seq) : seq[p].kind = kind}

\* the positions of the scope steps of iteration i of loop l
StepsOf(kind, l, i) ==
    {p \in Positions(trace, kind) : trace[p].owner = l /\ trace[p].iter = i}

\* the iteration bound at position q of the trace is open at position p:
\* not popped in between
OpenAt(q, p) ==
    /\ q < p
    /\ trace[q].kind = "bind"
    /\ \A r \in (q + 1)..(p - 1) :
          ~(/\ trace[r].kind = "pop"
            /\ trace[r].owner = trace[q].owner
            /\ trace[r].iter = trace[q].iter)

\* the expansion of the loop with identity l
ExpansionOf(l) ==
    expansions[CHOOSE x \in 1..Len(expansions) : expansions[x].self = l]

Expanded(l) == \E x \in 1..Len(expansions) : expansions[x].self = l

InfoMessages == SelectSeq(log, LAMBDA m : m.level = "INFO")

IsStep(e, function) == e.type = "OpaqueFunction" /\ e.function = function

\* ---- C1 -----------------------------------------------------------------
\* C1: for every count N >= 0 denoted by the launch argument and every
\* entities list T, the list execute returns is N blocks in ascending index
\* order, block i being push, bind (name, i), one instance of every entry of
\* T in declared order, pop; and nothing else.
C1_ExecuteReturnsBlocks ==
    \A x \in 1..Len(expansions) : \A n \in Counts :
        LET X == expansions[x]
            T == X.templates
            w == Len(T) + 3
            es == X.entities
        IN  DenotesCount(Get(launch_configurations, X.name), n) =>
              /\ Len(es) = n * w
              /\ \A i \in 0..(n - 1) :
                    /\ IsStep(es[i * w + 1], "_push_locals")
                    /\ IsStep(es[i * w + 2], "_set_index_local")
                    /\ es[i * w + 2].name = X.name
                    /\ es[i * w + 2].index = i
                    /\ \A k \in 1..Len(T) :
                          /\ es[i * w + 2 + k].type = T[k].type
                          /\ es[i * w + 2 + k].name = T[k].name
                          /\ es[i * w + 2 + k].entities = T[k].entities
                    /\ IsStep(es[i * w + w], "_pop_locals")

C1_Witness ==
    /\ status = "done"
    /\ Expanded(0)
    /\ ExpansionOf(0).num = 2
    /\ Len(ExpansionOf(0).templates) = 2
    /\ Len(ExpansionOf(0).entities) = 10

\* ---- C2 -----------------------------------------------------------------
\* the positions of the bind steps of the iterations that are open at
\* position p and bind the name resolved there
OpenBinds(p) ==
    {q \in 1..(p - 1) : trace[q].name = trace[p].name /\ OpenAt(q, p)}

\* C2 as stated: every resolution of a loop's index variable between the bind
\* step and the pop step of its iteration i, at any nesting depth, yields the
\* string form of i.
C2_Original ==
    \A p \in Positions(trace, "resolve") : \A q \in OpenBinds(p) :
        trace[p].value = Decimal(trace[q].iter)

\* C2 as amended: the resolution yields the string form of i unless a loop
\* nested in the body is in an iteration over the same index name; then it
\* yields the index of the innermost such iteration.
C2_IndexRoundTrip ==
    \A p \in Positions(trace, "resolve") :
        LET open == OpenBinds(p)
        IN  \A q \in open :
                (\A r \in open : r <= q) =>
                    trace[p].value = Decimal(trace[q].iter)

\* a resolution at nesting depth two, an iteration of the same name open in
\* each of the two loops, the outer one with another index
C2_Witness ==
    \E p \in Positions(trace, "resolve") : \E q, r \in OpenBinds(p) :
        /\ q < r
        /\ trace[q].iter # trace[r].iter
        /\ trace[p].owner = trace[r].owner
        /\ trace[p].value = Decimal(trace[r].iter)

\* ---- C3 -----------------------------------------------------------------
\* C3: after the pop step of iteration i, a lookup of the index variable name
\* returns the value, or the absence, that the lookup returned immediately
\* before the push step of iteration i.
C3_ScopeIsolation ==
    \A p \in Positions(trace, "pop") :
        \A q \in StepsOf("push", trace[p].owner, trace[p].iter) :
            /\ q < p
            /\ trace[p].found = trace[q].found
            /\ trace[p].value = trace[q].value
            /\ trace[p].depth = trace[q].depth

\* one pop that finds the name absent again and one, of a nested loop, that
\* finds the index of the enclosing iteration again
C3_Witness ==
    /\ \E p \in Positions(trace, "pop") :
          /\ ~trace[p].found
          /\ StepsOf("bind", trace[p].owner, trace[p].iter) # {}
    /\ \E p \in Positions(trace, "pop") :
          /\ trace[p].found
          /\ trace[p].value = Decimal(1)

\* ---- C4 -----------------------------------------------------------------
\* C4: with the single entity LogInfo(msg=['i=', index]) and a count of N the
\* messages logged are exactly i=0, i=1, ..., i=N-1, in this order; i=0, i=1
\* for N = 2 and i=0, i=1, i=2 for N = 3.
C4_EndToEnd ==
    (status = "done" /\ Expanded(0)
        /\ ExpansionOf(0).templates = <<LogInfoT("num")>>) =>
      /\ \A n \in Counts :
            DenotesCount(Get(launch_configurations, "num"), n) =>
                InfoMessages = [k \in 1..n |->
                    [level |-> "INFO", msg |-> <<"i", "=">> \o Decimal(k - 1)]]
      /\ Get(launch_configurations, "num") = <<"2">> =>
            InfoMessages = <<[level |-> "INFO", msg |-> <<"i", "=", "0">>],
                             [level |-> "INFO", msg |-> <<"i", "=", "1">>]>>
      /\ Get(launch_configurations, "num") = <<"3">> =>
            InfoMessages = <<[level |-> "INFO", msg |-> <<"i", "=", "0">>],
                             [level |-> "INFO", msg |-> <<"i", "=", "1">>],
                             [level |-> "INFO", msg |-> <<"i", "=", "2">>]>>

C4_Witness ==
    /\ status = "done"
    /\ Expanded(0)
    /\ ExpansionOf(0).templates = <<LogInfoT("num")>>
    /\ Get(launch_configurations, "num") = <<"2">>
    /\ Len(InfoMessages) = 2

\* ---- C5 -----------------------------------------------------------------
\* the ForLoop of the description was executed with its launch argument
\* undeclared or not denoting an integer
CountUnresolvable ==
    /\ visited # <<>>
    /\ \/ ~Has(launch_configurations, "num")
       \/ Unparseable(Get(launch_configurations, "num"))

\* C5: when the launch argument is undeclared or is not parseable as an
\* integer, execute fails with a count-resolution error and returns no list;
\* no entity has been instantiated, no scope step exists and the locals are
\* untouched.
C5_CountResolutionFailure ==
    CountUnresolvable =>
        /\ status = "error"
        /\ error = IF Has(launch_configurations, "num")
                   THEN "ValueError" ELSE "SubstitutionFailure"
        /\ expansions = <<>>
        /\ nextId = 1
        /\ agenda = <<RootLoop(Head(agenda).entities)>>
        /\ visited = <<0>>
        /\ trace = <<>>
        /\ log = <<>>
        /\ Len(locals_stack) = 1

C5_Witness ==
    /\ CountUnresolvable
    /\ error = "ValueError"
    /\ Head(agenda).entities # <<>>

\* ---- C6 -----------------------------------------------------------------
\* the index variable name is bound before the loop runs
OuterBound == Has(locals_stack[1], "num")

ShadowWarning(value) ==
    [level |-> "WARNING",
     msg |-> <<"local variable already exists: ", "num", "=">> \o value]

\* the warnings about the binding that was there before the loop ran
OuterWarnings == SelectSeq(log, LAMBDA m : m = ShadowWarning(OuterValue))

\* C6: if the index variable name is bound in an outer scope before the loop
\* runs, every bind step of the loop emits one shadow warning, N in all, each
\* naming the outer value, hence emitted before the binding is written; the
\* index shadows the outer value until the pop of the iteration restores it.
C6_ShadowWarnings ==
    OuterBound =>
        /\ \A p \in Positions(trace, "bind") :
              trace[p].owner = 0 =>
                  /\ trace[p].found
                  /\ trace[p].value = Decimal(trace[p].iter)
        /\ Len(OuterWarnings)
              = Cardinality({p \in Positions(trace, "bind") : trace[p].owner = 0})
        /\ \A p \in Positions(trace, "pop") :
              trace[p].owner = 0 =>
                  trace[p].found /\ trace[p].value = OuterValue
        /\ (status = "done" /\ Expanded(0) /\ ExpansionOf(0).num >= 0) =>
              Len(OuterWarnings) = ExpansionOf(0).num

C6_Witness ==
    /\ OuterBound
    /\ status = "done"
    /\ Expanded(0)
    /\ ExpansionOf(0).num = 2
    /\ Len(OuterWarnings) = 2

\* ---- C7 -----------------------------------------------------------------
\* the identities of the entities of the x-th returned list
IdsOf(x) ==
    {expansions[x].entities[k].id : k \in 1..Len(expansions[x].entities)}

\* C7: every entity of a returned list is an object created during the
\* expansion; no object is at two positions, within a list or across lists,
\* none is the ForLoop of the description, and none is executed twice.
C7_FreshInstances ==
    LET ids == [x \in 1..Len(expansions) |-> IdsOf(x)]
        all == UNION {ids[x] : x \in 1..Len(expansions)}
    IN  /\ \A x \in 1..Len(expansions) :
              /\ Cardinality(ids[x]) = Len(expansions[x].entities)
              /\ \A y \in 1..(x - 1) : ids[x] \cap ids[y] = {}
        /\ 0 \notin all
        /\ Cardinality({visited[p] : p \in 1..Len(visited)}) = Len(visited)
        /\ \A p \in 1..Len(visited) : visited[p] = 0 \/ visited[p] \in all

\* two iterations of one entity have both been executed
C7_Witness ==
    /\ status = "done"
    /\ Expanded(0)
    /\ ExpansionOf(0).num = 2
    /\ ExpansionOf(0).templates = <<MayFailT>>
    /\ Len(visited) = 9

\* ---- C8 -----------------------------------------------------------------
\* the ForLoop object l, an entity of the list returned by the outer loop
LoopEntity(l) ==
    LET es == ExpansionOf(0).entities
    IN  es[CHOOSE k \in 1..Len(es) : es[k].id = l]

\* C8: in the body of a nested loop the inner index resolves to the inner
\* iteration j and, when the names differ, the outer index resolves to the
\* outer iteration i; after the last pop of the nested loop the outer index
\* resolves to i for the rest of outer iteration i, also when both loops use
\* the same name.
C8_NestedLoops ==
    /\ \A p \in Positions(trace, "resolve") :
          LET l == trace[p].owner
          IN  /\ trace[p].name = ExpansionOf(l).name =>
                    trace[p].value = Decimal(trace[p].iter)
              /\ (l # 0 /\ trace[p].name # ExpansionOf(l).name) =>
                    /\ trace[p].name = ExpansionOf(0).name
                    /\ trace[p].value = Decimal(LoopEntity(l).iter)
    /\ \A p \in Positions(trace, "pop") :
          LET l == trace[p].owner
          IN  (l # 0 /\ ExpansionOf(l).name = ExpansionOf(0).name) =>
                  /\ trace[p].found
                  /\ trace[p].value = Decimal(LoopEntity(l).iter)

\* in outer iteration 1 a nested loop over m has resolved the outer index in
\* its iteration 0 and has finished, and the outer index is resolved again
C8_Witness ==
    \E p, q, r \in 1..Len(trace) :
        /\ r < q /\ q < p
        /\ trace[r].kind = "resolve" /\ trace[r].owner # 0
        /\ ExpansionOf(trace[r].owner).name = "m"
        /\ trace[r].name = "num" /\ trace[r].iter = 0
        /\ LoopEntity(trace[r].owner).iter = 1
        /\ trace[q].kind = "pop" /\ trace[q].owner = trace[r].owner
        /\ trace[q].iter = 1
        /\ trace[p].kind = "resolve" /\ trace[p].owner = 0 /\ trace[p].iter = 1

\* ---- C9 -----------------------------------------------------------------
\* the push steps executed whose iteration has no pop step executed
Unpopped ==
    {q \in Positions(trace, "push") :
        StepsOf("pop", trace[q].owner, trace[q].iter) = {}}

\* C9: when the run has ended, also because an entity failed, every push
\* executed is matched by a pop and no frame is left on the store.
C9_PushPopPaired ==
    status \in {"done", "error"} =>
        /\ Unpopped = {}
        /\ Len(locals_stack) = 1

\* ---- C10 ----------------------------------------------------------------
\* an entity failed while executing
ExecutionFailed ==
    /\ status = "error"
    /\ error \in {"RuntimeError", "AttributeError"}

\* the entities of iteration i of loop l
EntitiesOf(l, i) ==
    LET es == ExpansionOf(l).entities
    IN  {es[k] : k \in {j \in 1..Len(es) : es[j].iter = i}}

\* C10: when an entity of iteration k has failed, iterations 0..k-1 have run
\* completely, push, bind, body and pop; nothing of a later iteration has
\* run; the frame of iteration k is still on the store with the index bound,
\* not popped.
C10_AbortLeavesFrame ==
    ExecutionFailed =>
        /\ \E q \in Unpopped :
              /\ trace[q].owner = Head(agenda).owner
              /\ trace[q].iter = Head(agenda).iter
        /\ Len(locals_stack) = 1 + Cardinality(Unpopped)
        /\ \A q \in Unpopped :
              LET l == trace[q].owner
                  k == trace[q].iter
                  es == ExpansionOf(l).entities
              IN  /\ \A i \in 0..(k - 1) :
                        /\ Cardinality(StepsOf("push", l, i)) = 1
                        /\ Cardinality(StepsOf("bind", l, i)) = 1
                        /\ Cardinality(StepsOf("pop", l, i)) = 1
                        /\ \A e \in EntitiesOf(l, i) :
                              \E p \in 1..Len(visited) : visited[p] = e.id
                  /\ \A j \in 1..Len(es) :
                        es[j].iter > k =>
                            \A p \in 1..Len(visited) : visited[p] # es[j].id
                  /\ \A e \in EntitiesOf(l, k) :
                        IsStep(e, "_pop_locals") =>
                            \A p \in 1..Len(visited) : visited[p] # e.id
                  /\ Has(locals_stack[trace[q].depth + 1], trace[q].name)
                  /\ Get(locals_stack[trace[q].depth + 1], trace[q].name)
                        = Decimal(k)

\* the entity of iteration 1 of the loop of the description has failed
C10_Witness ==
    /\ ExecutionFailed
    /\ error = "RuntimeError"
    /\ Head(agenda).owner = 0
    /\ Head(agenda).iter = 1

\* ---- C11 ----------------------------------------------------------------
\* the entities list of the ForLoop of the description, once it was executed
RootTemplates ==
    IF Expanded(0) THEN ExpansionOf(0).templates ELSE Head(agenda).entities

HasType(T, type) == \E k \in 1..Len(T) : T[k].type = type

\* the ForLoop of the description was executed with a count under which one
\* of its constructors raises: at once, or for the second object
ConstructionRejected ==
    /\ visited # <<>>
    /\ Has(launch_configurations, "num")
    /\ \E n \in Counts :
          /\ DenotesCount(Get(launch_configurations, "num"), n)
          /\ \/ n >= 1 /\ HasType(RootTemplates, "Rejecting")
             \/ n >= 2 /\ HasType(RootTemplates, "OnlyOnce")

\* C11: if a constructor rejects its arguments in some iteration k, the error
\* leaves execute; no list is returned, not even the blocks of iterations
\* 0..k-1; no push, bind or pop step of the loop is executed and the variable
\* store is unchanged.
C11_ConstructionFailure ==
    ConstructionRejected =>
        /\ status = "error"
        /\ error = "TypeError"
        /\ expansions = <<>>
        /\ agenda = <<RootLoop(RootTemplates)>>
        /\ visited = <<0>>
        /\ trace = <<>>
        /\ InfoMessages = <<>>
        /\ locals_stack \in {<<base>> : base \in BaseFrames}

\* the second object of OnlyOnce was rejected, in iteration 1, after the
\* objects of iteration 0 were created
C11_Witness ==
    /\ ConstructionRejected
    /\ error = "TypeError"
    /\ HasType(RootTemplates, "OnlyOnce")
    /\ ~HasType(RootTemplates, "Rejecting")
    /\ nextId > 3

\* ---- C12 ----------------------------------------------------------------
\* the ForLoop of the description was executed with the count 0
CountZero ==
    /\ visited # <<>>
    /\ Has(launch_configurations, "num")
    /\ Get(launch_configurations, "num") = <<"0">>

\* C12: when the launch argument resolves to 0, execute returns an empty list
\* without error: no scope step runs, no entity is instantiated and nothing
\* is logged by an entity.
C12_ZeroIterations ==
    CountZero =>
        /\ status # "error"
        /\ error = ""
        /\ Len(expansions) = 1
        /\ expansions[1].self = 0
        /\ expansions[1].entities = <<>>
        /\ agenda = <<>>
        /\ nextId = 1
        /\ visited = <<0>>
        /\ trace = <<>>
        /\ InfoMessages = <<>>
        /\ locals_stack \in {<<base>> : base \in BaseFrames}

\* the run is over, with an entities list that has a constructor that raises
C12_Witness ==
    /\ CountZero
    /\ status = "done"
    /\ HasType(RootTemplates, "Rejecting")
    /\ HasType(RootTemplates, "LogInfo")

\* ---- C13 ----------------------------------------------------------------
\* the positions of the scope steps of loop l, of all its iterations
LoopSteps(kind, l) == {p \in Positions(trace, kind) : trace[p].owner = l}

\* C13: every push of a loop has one pop, placed right after the last entity
\* of its iteration; the push of iteration i+1 is not executed before the
\* pop of iteration i; the pushes executed minus the pops executed of one
\* loop are 0 or 1 at every point.
C13_SequentialScopes ==
    \A x \in 1..Len(expansions) :
        LET l == expansions[x].self
            es == expansions[x].entities
            w == Len(expansions[x].templates) + 3
            pushes == LoopSteps("push", l)
            pops == LoopSteps("pop", l)
        IN  /\ Cardinality(pushes) - Cardinality(pops) \in {0, 1}
            /\ \A p \in pushes :
                  /\ Cardinality(StepsOf("push", l, trace[p].iter)) = 1
                  /\ trace[p].iter >= 1 =>
                        \E q \in pops : q < p /\ trace[q].iter = trace[p].iter - 1
            /\ \A q \in pops :
                  /\ Cardinality(StepsOf("pop", l, trace[q].iter)) = 1
                  /\ \E p \in pushes : p < q /\ trace[p].iter = trace[q].iter
            /\ \A j \in 1..Len(es) :
                  /\ IsStep(es[j], "_push_locals") <=> j % w = 1
                  /\ IsStep(es[j], "_pop_locals") <=> j % w = 0
                  /\ es[j].iter = (j - 1) \div w

\* two iterations of the ForLoop of the description and of a nested ForLoop
\* have been pushed and popped
C13_Witness ==
    /\ status = "done"
    /\ Cardinality(LoopSteps("pop", 0)) = 2
    /\ \E x \in 1..Len(expansions) :
          /\ expansions[x].self # 0
          /\ Cardinality(LoopSteps("pop", expansions[x].self)) = 2

\* ---- C14 ----------------------------------------------------------------
\* C14: the step that executes a ForLoop, for any count and entities list,
\* leaves the variable store as it is, frames and bindings; what it returns
\* is not executed by it.
C14_ExpansionLeavesStore ==
    [][(agenda # <<>> /\ Head(agenda).type = "ForLoop") =>
          /\ locals_stack' = locals_stack
          /\ trace' = trace
          /\ (status' = "running" =>
                agenda' = expansions'[Len(expansions')].entities
                          \o Tail(agenda))]_vars

\* a nested ForLoop has just been executed in iteration 1 of the outer one:
\* its first push is next and the store is that of the outer iteration
C14_Witness ==
    /\ agenda # <<>>
    /\ IsStep(Head(agenda), "_push_locals")
    /\ Head(agenda).owner # 0
    /\ Head(agenda).iter = 0
    /\ Expanded(Head(agenda).owner)
    /\ Len(ExpansionOf(Head(agenda).owner).entities) > 0
    /\ LoopSteps("push", Head(agenda).owner) = {}
    /\ Len(locals_stack) = 2
    /\ Lookup(locals_stack, "num") = [found |-> TRUE, value |-> Decimal(1)]

\* ---- C15 ----------------------------------------------------------------
\* the positions at which an entity of the body bound its local, in an
\* iteration that is not popped yet
OpenExtends ==
    {p \in Positions(trace, "extend") :
        StepsOf("pop", trace[p].owner, trace[p].iter) = {}}

\* C15: a variable that an entity of the body binds during iteration i is
\* visible until the pop of that iteration and absent afterwards: not in
\* iteration i+1 before the body binds it again, and not after the loop.
C15_BodyBindingsDiscarded ==
    /\ Contains(locals_stack, "tmp") <=> OpenExtends # {}
    /\ Contains(locals_stack, "tmp") =>
          Lookup(locals_stack, "tmp").value = <<"v">>
    /\ ~Has(locals_stack[1], "tmp")

\* the local was bound in two iterations and the run is over
C15_Witness ==
    /\ status = "done"
    /\ Cardinality(Positions(trace, "extend")) = 2
    /\ StepsOf("extend", 0, 0) # {}
    /\ StepsOf("extend", 0, 1) # {}

\* ---- C16 ----------------------------------------------------------------
\* the position in the order of execution of the entity with identity id
VisitedAt(id) == CHOOSE p \in 1..Len(visited) : visited[p] = id

WasVisited(id) == \E p \in 1..Len(visited) : visited[p] = id

\* iteration i of the loop of the x-th returned list went from not started
\* to popped: its push, its bind, the entities of its body in declared order
\* and its pop were executed one after the other
IterationCompleted(x, i) ==
    LET l == expansions[x].self
        es == expansions[x].entities
        w == Len(expansions[x].templates) + 3
    IN  /\ \A j \in (i * w + 1)..(i * w + w) : WasVisited(es[j].id)
        /\ \A j \in (i * w + 1)..(i * w + w - 1) :
              VisitedAt(es[j].id) < VisitedAt(es[j + 1].id)
        /\ \E p \in StepsOf("push", l, i) : \E b \in StepsOf("bind", l, i) :
              \E q \in StepsOf("pop", l, i) :
                  /\ p < b /\ b < q
                  /\ trace[p].depth = trace[q].depth

\* the run is over, every iteration of every loop executed went to its pop
\* and the frame stack is as deep as before the loop
Completed ==
    /\ status = "done"
    /\ agenda = <<>>
    /\ locals_stack \in {<<base>> : base \in BaseFrames}
    /\ Expanded(0)
    /\ \A x \in 1..Len(expansions) :
          \A i \in 0..(expansions[x].num - 1) : IterationCompleted(x, i)

\* C16: when the driver executes the returned list in order and no entity
\* fails, every iteration goes through push, bind, body and pop in this order
\* and is popped in the end, and the execution finishes with the frame stack
\* at the depth it had before the loop.
C16_EveryIterationCompletes == <>(status = "error" \/ Completed)

\* a finished run of two iterations with a nested ForLoop
C16_Witness ==
    /\ Completed
    /\ ExpansionOf(0).num = 2
    /\ Len(expansions) = 3

\* ---- C17 ----------------------------------------------------------------
\* the ForLoop of the description was executed with the count -1
CountNegative ==
    /\ visited # <<>>
    /\ Has(launch_configurations, "num")
    /\ Get(launch_configurations, "num") = <<"-", "1">>

\* C17: when the launch argument parses to a negative integer, execute raises
\* no error and returns an empty list, as it does for 0: the count is logged,
\* no scope step runs and no template entity is instantiated.
C17_NegativeCount ==
    CountNegative =>
        /\ status # "error"
        /\ error = ""
        /\ expansions = <<[self |-> 0, name |-> "num", num |-> -1,
                           templates |-> RootTemplates, entities |-> <<>>]>>
        /\ log = <<[level |-> "DEBUG",
                    msg |-> <<"for-loop length=", "-", "1">>]>>
        /\ agenda = <<>>
        /\ nextId = 1
        /\ visited = <<0>>
        /\ trace = <<>>
        /\ locals_stack \in {<<base>> : base \in BaseFrames}

\* the run is over, for a ForLoop of two entities, one of them a ForLoop
C17_Witness ==
    /\ CountNegative
    /\ status = "done"
    /\ Len(RootTemplates) = 2
    /\ HasType(RootTemplates, "ForLoop")
    /\ HasType(RootTemplates, "Rejecting")

\* ---- C18 ----------------------------------------------------------------
\* the bind steps that emitted a shadow warning
WarnedBinds == {p \in Positions(trace, "bind") : trace[p].found}

Warnings == SelectSeq(log, LAMBDA m : m.level = "WARNING")

\* C18: a bind step emits a shadow warning only if its name was bound before
\* the loop ran, in the outer scope or by an open iteration of an enclosing
\* loop of the same name; if the name was not bound before the loop ran, no
\* bind step of the loop warns, iteration i+1 does not find the binding of
\* iteration i, and without a same-name nested loop nothing is warned at all.
C18_NoSpuriousWarning ==
    /\ \A p \in WarnedBinds :
          \/ OuterBound /\ trace[p].name = "num"
          \/ OpenBinds(p) # {}
    /\ ~OuterBound => \A p \in WarnedBinds : trace[p].owner # 0
    /\ \A p \in WarnedBinds : \A q \in OpenBinds(p) :
          trace[q].owner # trace[p].owner
    /\ (~OuterBound /\ \A p \in Positions(trace, "bind") : OpenBinds(p) = {})
          => Warnings = <<>>

\* a finished run of two iterations whose body binds another variable, with
\* nothing bound before the loop: both bind steps ran and nothing was warned
C18_Witness ==
    /\ ~OuterBound
    /\ status = "done"
    /\ Expanded(0)
    /\ ExpansionOf(0).num = 2
    /\ HasType(RootTemplates, "ExtendLocals")
    /\ Cardinality({p \in Positions(trace, "bind") : trace[p].owner = 0}) = 2
    /\ WarnedBinds = {}
    /\ Warnings = <<>>

\* ---- C19 ----------------------------------------------------------------
\* the count of the x-th list returned is the integer that the launch
\* configuration of the loop's name denotes, and the list has the blocks of
\* that many iterations
CountFromConfiguration(x) ==
    LET e == expansions[x]
        v == perform(launch_configurations, e.name)
    IN  /\ v.ok
        /\ int(v.value) = [ok |-> TRUE, value |-> e.num]
        /\ Len(e.entities)
              = (IF e.num > 0 THEN e.num ELSE 0) * (Len(e.templates) + 3)

\* C19: the count is read from the launch configuration of the loop's name
\* and the index is written to the locals under that name, so that no step
\* changes the configuration; a loop nested in a loop of the same name has
\* the count N of the outer loop in every outer iteration, whatever the
\* outer index is.
C19_CountIndependentOfIndex ==
    /\ [](\A x \in 1..Len(expansions) :
            /\ CountFromConfiguration(x)
            /\ expansions[x].name = "num" =>
                  (Expanded(0) /\ expansions[x].num = ExpansionOf(0).num))
    /\ [][launch_configurations' = launch_configurations]_vars

\* the loop over num has the count 2, and the loops over num nested in its
\* iterations 0 and 1 were both expanded to 2 iterations
C19_Witness ==
    /\ Len(expansions) = 3
    /\ ExpansionOf(0).num = 2
    /\ \A x \in 2..3 : expansions[x].name = "num" /\ expansions[x].num = 2
    /\ LoopEntity(expansions[2].self).iter = 0
    /\ LoopEntity(expansions[3].self).iter = 1
    /\ \E p \in Positions(trace, "bind") :
          trace[p].owner = expansions[3].self /\ trace[p].iter = 1

====
